---- MODULE Spec2Model ----
(***************************************************************************)
(* Citizen AI (src/app.py): the CitizenAI class (assistant call,           *)
(* conversation log, rule-based sentiment scorer) and the module-level     *)
(* handlers wired to the web interface, as a state machine.                *)
(*                                                                         *)
(* Python strings that the code inspects character by character (chat      *)
(* messages, feedback text, lexicon entries) are sequences of one-         *)
(* character strings; strings the code only passes along (assistant        *)
(* replies, fixed notices) are TLA+ strings.                               *)
(***************************************************************************)
EXTENDS Integers, Sequences, FiniteSets, TLC

VARIABLES
    HF_API_TOKEN,          \* os.getenv("HF_API_TOKEN"): fixed for the process
    ai,                    \* the global instance: None or a CitizenAI
    conversation_history,  \* ai.conversation_history (<<>> while ai is None)
    now,                   \* the wall clock read by datetime.now()
    feedback_input,        \* the text of the feedback box handed to the scorer
    last                   \* the most recent handler call: its inputs and return value

vars == <<HF_API_TOKEN, ai, conversation_history, now, feedback_input, last>>

(***************************************************************************)
(* Bounds of the model.                                                    *)
(***************************************************************************)
\* longest conversation log explored (above the history window of 10)
MaxLog == 11
\* clock readings 0..MaxClock
MaxClock == 1
\* longest chat history handed to chat_with_ai
MaxHistory == 1
\* feedback texts are concatenations of at most MaxPieces pieces
MaxPieces == 3

(***************************************************************************)
(* Python values.                                                          *)
(***************************************************************************)
\* Python's None (os.getenv of an unset variable, the uninitialized global)
None == "None"

\* str.isspace characters used in the inputs
Whitespace == {" ", "\t", "\n"}

UpperChars ==
    <<"A", "B", "C", "D", "E", "F", "G", "H", "I", "J", "K", "L", "M", "N", "O", "P", "Q", "R", "S", "T", "U", "V", "W", "X", "Y", "Z">>

LowerChars ==
    <<"a", "b", "c", "d", "e", "f", "g", "h", "i", "j", "k", "l", "m", "n", "o", "p", "q", "r", "s", "t", "u", "v", "w", "x", "y", "z">>

\* src/app.py:73-78
positive_words ==
    << <<"g", "o", "o", "d">>,   \* 'good'
       <<"g", "r", "e", "a", "t">>,   \* 'great'
       <<"e", "x", "c", "e", "l", "l", "e", "n", "t">>,   \* 'excellent'
       <<"a", "m", "a", "z", "i", "n", "g">>,   \* 'amazing'
       <<"w", "o", "n", "d", "e", "r", "f", "u", "l">>,   \* 'wonderful'
       <<"f", "a", "n", "t", "a", "s", "t", "i", "c">>,   \* 'fantastic'
       <<"s", "a", "t", "i", "s", "f", "i", "e", "d">>,   \* 'satisfied'
       <<"h", "a", "p", "p", "y">>,   \* 'happy'
       <<"p", "l", "e", "a", "s", "e", "d">>,   \* 'pleased'
       <<"i", "m", "p", "r", "o", "v", "e", "d">>,   \* 'improved'
       <<"b", "e", "t", "t", "e", "r">>,   \* 'better'
       <<"t", "h", "a", "n", "k", "s">>,   \* 'thanks'
       <<"t", "h", "a", "n", "k", " ", "y", "o", "u">>,   \* 'thank you'
       <<"h", "e", "l", "p", "f", "u", "l">>,   \* 'helpful'
       <<"e", "f", "f", "i", "c", "i", "e", "n", "t">>,   \* 'efficient'
       <<"q", "u", "i", "c", "k">>,   \* 'quick'
       <<"f", "a", "s", "t">>,   \* 'fast'
       <<"l", "o", "v", "e">>,   \* 'love'
       <<"a", "p", "p", "r", "e", "c", "i", "a", "t", "e">>,   \* 'appreciate'
       <<"p", "e", "r", "f", "e", "c", "t">>,   \* 'perfect'
       <<"o", "u", "t", "s", "t", "a", "n", "d", "i", "n", "g">>,   \* 'outstanding'
       <<"b", "r", "i", "l", "l", "i", "a", "n", "t">>   \* 'brilliant'
    >>

\* src/app.py:80-85
negative_words ==
    << <<"b", "a", "d">>,   \* 'bad'
       <<"t", "e", "r", "r", "i", "b", "l", "e">>,   \* 'terrible'
       <<"a", "w", "f", "u", "l">>,   \* 'awful'
       <<"h", "o", "r", "r", "i", "b", "l", "e">>,   \* 'horrible'
       <<"d", "i", "s", "a", "p", "p", "o", "i", "n", "t", "e", "d">>,   \* 'disappointed'
       <<"a", "n", "g", "r", "y">>,   \* 'angry'
       <<"f", "r", "u", "s", "t", "r", "a", "t", "e", "d">>,   \* 'frustrated'
       <<"p", "o", "o", "r">>,   \* 'poor'
       <<"w", "o", "r", "s", "e">>,   \* 'worse'
       <<"b", "r", "o", "k", "e", "n">>,   \* 'broken'
       <<"i", "s", "s", "u", "e">>,   \* 'issue'
       <<"p", "r", "o", "b", "l", "e", "m">>,   \* 'problem'
       <<"s", "l", "o", "w">>,   \* 'slow'
       <<"d", "e", "l", "a", "y">>,   \* 'delay'
       <<"c", "o", "m", "p", "l", "a", "i", "n", "t">>,   \* 'complaint'
       <<"n", "o", "t", " ", "w", "o", "r", "k", "i", "n", "g">>,   \* 'not working'
       <<"h", "a", "t", "e">>,   \* 'hate'
       <<"w", "o", "r", "s", "t">>,   \* 'worst'
       <<"u", "s", "e", "l", "e", "s", "s">>,   \* 'useless'
       <<"w", "a", "s", "t", "e">>,   \* 'waste'
       <<"d", "i", "s", "g", "u", "s", "t", "i", "n", "g">>,   \* 'disgusting'
       <<"a", "n", "n", "o", "y", "i", "n", "g">>   \* 'annoying'
    >>

\* the examples offered beside the feedback box
FeedbackExamples ==
    << <<"I", " ", "r", "e", "a", "l", "l", "y", " ", "a", "p", "p", "r", "e", "c", "i", "a", "t", "e", " ", "t", "h", "e", " ", "q", "u", "i", "c", "k", " ", "s", "e", "r", "v", "i", "c", "e", " ", "a", "t", " ", "t", "h", "e", " ", "p", "a", "s", "s", "p", "o", "r", "t", " ", "o", "f", "f", "i", "c", "e", "!">>,   \* 'I really appreciate the quick service at the passport office!'
       <<"T", "h", "e", " ", "p", "r", "o", "p", "e", "r", "t", "y", " ", "t", "a", "x", " ", "p", "a", "y", "m", "e", "n", "t", " ", "p", "r", "o", "c", "e", "s", "s", " ", "i", "s", " ", "v", "e", "r", "y", " ", "c", "o", "m", "p", "l", "i", "c", "a", "t", "e", "d", " ", "a", "n", "d", " ", "f", "r", "u", "s", "t", "r", "a", "t", "i", "n", "g", ".">>,   \* 'The property tax payment process is very complicated and frustrating.'
       <<"T", "h", "a", "n", "k", " ", "y", "o", "u", " ", "f", "o", "r", " ", "t", "h", "e", " ", "e", "x", "c", "e", "l", "l", "e", "n", "t", " ", "c", "u", "s", "t", "o", "m", "e", "r", " ", "s", "e", "r", "v", "i", "c", "e", " ", "t", "o", "d", "a", "y", ".">>,   \* 'Thank you for the excellent customer service today.'
       <<"T", "h", "e", " ", "w", "e", "b", "s", "i", "t", "e", " ", "i", "s", " ", "s", "l", "o", "w", " ", "a", "n", "d", " ", "n", "o", "t", " ", "u", "s", "e", "r", "-", "f", "r", "i", "e", "n", "d", "l", "y", " ", "a", "t", " ", "a", "l", "l", ".">>   \* 'The website is slow and not user-friendly at all.'
    >>

\* building blocks of the explored feedback texts
Pieces ==
    << <<"g", "o", "o", "d">>,   \* 'good'
       <<"G", "R", "E", "A", "T">>,   \* 'GREAT'
       <<"f", "a", "s", "t">>,   \* 'fast'
       <<"b", "a", "d">>,   \* 'bad'
       <<"s", "l", "o", "w">>,   \* 'slow'
       <<"t", "h", "a", "n", "k">>,   \* 'thank'
       <<"y", "o", "u">>,   \* 'you'
       <<" ">>,   \* ' '
       <<"\t">>,   \* '\t'
       <<"x">>   \* 'x'
    >>

\* a text that repeats one lexicon entry
RepeatedWord ==
    <<"g", "o", "o", "d", " ", "g", "o", "o", "d", " ", "g", "o", "o", "d">>

(***************************************************************************)
(* str methods used by the code.                                           *)
(***************************************************************************)
\* one character of str.lower()
LowerChar(c) ==
    IF \E i \in 1..Len(UpperChars) : UpperChars[i] = c
    THEN LowerChars[CHOOSE i \in 1..Len(UpperChars) : UpperChars[i] = c]
    ELSE c

\* str.lower()
lower(s) == [i \in 1..Len(s) |-> LowerChar(s[i])]

RECURSIVE lstrip(_)
\* str.lstrip()
lstrip(s) ==
    IF s # <<>> /\ Head(s) \in Whitespace THEN lstrip(Tail(s)) ELSE s

RECURSIVE rstrip(_)
\* str.rstrip()
rstrip(s) ==
    IF s # <<>> /\ s[Len(s)] \in Whitespace
    THEN rstrip(SubSeq(s, 1, Len(s) - 1))
    ELSE s

\* str.strip()
strip(s) == rstrip(lstrip(s))

RECURSIVE split(_)
\* str.split() with no separator: the maximal runs of non-whitespace
split(s) ==
    LET t == lstrip(s)
    IN  IF t = <<>>
        THEN <<>>
        ELSE LET stops == {i \in 1..Len(t) : t[i] \in Whitespace}
                 n == IF stops = {}
                      THEN Len(t) + 1
                      ELSE CHOOSE i \in stops : \A j \in stops : i <= j
             IN  <<SubSeq(t, 1, n - 1)>> \o split(SubSeq(t, n, Len(t)))

\* `word in text`: word occurs in text as a contiguous substring
str_contains(text, word) ==
    \E i \in 1..(Len(text) - Len(word) + 1) :
        SubSeq(text, i, i + Len(word) - 1) = word

\* the number of places where word occurs in text (str.count with overlaps)
occurrences(text, word) ==
    Cardinality({i \in 1..(Len(text) - Len(word) + 1) :
                    SubSeq(text, i, i + Len(word) - 1) = word})

RECURSIVE SumSeq(_)
SumSeq(ns) == IF ns = <<>> THEN 0 ELSE Head(ns) + SumSeq(Tail(ns))

\* a frequency count: every occurrence of every entry counts
count_occurrences(words, text) ==
    SumSeq([i \in 1..Len(words) |-> occurrences(text, words[i])])

\* sum(1 for word in words if word in text)
count_matches(words, text) ==
    Cardinality({i \in 1..Len(words) : str_contains(text, words[i])})

\* max(a, b)
max(a, b) == IF a >= b THEN a ELSE b

\* a fixed string returned to the interface
Str(s) == [kind |-> "str", str |-> s]

(***************************************************************************)
(* CitizenAI.analyze_sentiment                                             *)
(***************************************************************************)
\* `not text` : only the empty string counts as no input
empty_input_unstripped(text) == text = <<>>

\* `not text.strip()`
empty_input(text) == strip(text) = <<>>

\* ties go to Positive
sentiment_label_ge(positive_count, negative_count) ==
    IF positive_count >= negative_count THEN "Positive"
    ELSE "Negative"

\* the if / elif / else over the two counts
sentiment_label(positive_count, negative_count) ==
    IF positive_count > negative_count THEN "Positive"
    ELSE IF negative_count > positive_count THEN "Negative"
    ELSE "Neutral"

\* The returned text interpolates the label, the confidence, the two counts
\* and the number of words; the record holds those values.  The confidence
\* is the exact ratio num / den of the division.
analyze_sentiment(text) ==
    IF empty_input(text)
    THEN Str("Please enter some text to analyze.")
    ELSE LET text_lower == lower(text)
             positive_count == count_matches(positive_words, text_lower)
             negative_count == count_matches(negative_words, text_lower)
             words == Len(split(text))
         IN  [kind |-> "sentiment",
              sentiment |-> sentiment_label(positive_count, negative_count),
              confidence |-> [num |-> max(positive_count, negative_count),
                              den |-> words + 1],
              positive_count |-> positive_count,
              negative_count |-> negative_count,
              total_words |-> words]

(***************************************************************************)
(* Inputs of the handlers.                                                 *)
(***************************************************************************)
\* values of the HF_API_TOKEN environment variable: unset, empty, set
EnvTokens == {None, "", "hf_token"}

\* chat messages: empty, whitespace only, and one with text
Messages == {<<>>, <<" ", "\t">>, <<"h", "i">>}

\* a [message, reply] pair already shown in the chat window
PriorPair == [message |-> <<"h", "i">>, reply |-> "Please enter a message."]

\* chat histories handed to chat_with_ai
Histories == {[i \in 1..n |-> PriorPair] : n \in 0..MaxHistory}

\* What self.client.chat.completions.create does: it raises exc, or returns
\* a completion whose choices hold the message contents.  The client is an
\* external library: any call may have any of these outcomes.
ApiOutcomes ==
    { [exc |-> None, choices |-> <<"I am Citizen AI.">>],
      [exc |-> None, choices |-> <<>>],
      [exc |-> "401 Unauthorized", choices |-> <<>>] }

\* the feedback box in the interface runs: blank, and one offered example
FeedbackBox == {<<" ", " ", " ">>, FeedbackExamples[3]}

\* the service dropdown: its default choice and no choice
ServiceChoices == {"Passport Services", None}

\* the keys of services_info
services_info ==
    {"Passport Services", "Property Tax", "Driving License",
     "Birth Certificate", "Voter ID", "General Inquiry"}

RECURSIVE Concat(_)
Concat(ps) == IF ps = <<>> THEN <<>> ELSE Head(ps) \o Concat(Tail(ps))

\* the ways of choosing at most MaxPieces pieces in a row
PieceSeqs == UNION {[1..n -> 1..Len(Pieces)] : n \in 0..MaxPieces}

\* the feedback texts of the scorer runs
Texts ==
    {FeedbackExamples[i] : i \in 1..Len(FeedbackExamples)}
    \cup {RepeatedWord}
    \cup {Concat([j \in 1..Len(f) |-> Pieces[f[j]]]) : f \in PieceSeqs}

\* str(e) of the exceptions the code can raise itself
TokenMissing == "HF_API_TOKEN not found in environment variables"
IndexError == "list index out of range"
ClientError == "InferenceClient error"

NotInitialized ==
    "Please initialize the AI first by clicking the 'Initialize AI' button."

(***************************************************************************)
(* class CitizenAI                                                         *)
(***************************************************************************)
\* the number of records get_conversation_history shows
HistoryWindow == 10

\* enumerate(history[:10], 1): the first records of the log, not the last
render_first(history) ==
    LET stop == IF Len(history) > HistoryWindow THEN HistoryWindow ELSE Len(history)
        shown == SubSeq(history, 1, stop)
    IN  [i \in 1..Len(shown) |->
            [n |-> i,
             timestamp |-> shown[i].timestamp,
             user_input |-> shown[i].user_input,
             ai_response |-> shown[i].ai_response]]

\* enumerate(history[-10:], 1): one numbered block per record of the slice
render_recent(history) ==
    LET start == IF Len(history) > HistoryWindow
                 THEN Len(history) - HistoryWindow + 1
                 ELSE 1
        shown == SubSeq(history, start, Len(history))
    IN  [i \in 1..Len(shown) |->
            [n |-> i,
             timestamp |-> shown[i].timestamp,
             user_input |-> shown[i].user_input,
             ai_response |-> shown[i].ai_response]]

\* CitizenAI.get_conversation_history
get_conversation_history ==
    IF conversation_history = <<>>
    THEN Str("No conversation history yet.")
    ELSE [kind |-> "history", blocks |-> render_recent(conversation_history)]

\* the record is stored before the assistant is called
generate_response_store_first(user_input, outcome) ==
    LET stored == Append(conversation_history,
                         [timestamp |-> now,
                          user_input |-> user_input,
                          ai_response |-> IF outcome.choices = <<>> THEN ""
                                          ELSE outcome.choices[1]])
    IN  IF outcome.exc # None
        THEN [conversation_history |-> stored, ret |-> "Error: " \o outcome.exc]
        ELSE IF outcome.choices = <<>>
        THEN [conversation_history |-> stored, ret |-> "Error: " \o IndexError]
        ELSE [conversation_history |-> stored, ret |-> outcome.choices[1]]

\* the record is put at the front of the log
generate_response_prepend(user_input, outcome) ==
    IF outcome.exc # None
    THEN [conversation_history |-> conversation_history,
          ret |-> "Error: " \o outcome.exc]
    ELSE IF outcome.choices = <<>>
    THEN [conversation_history |-> conversation_history,
          ret |-> "Error: " \o IndexError]
    ELSE [conversation_history |->
              <<[timestamp |-> now,
                 user_input |-> user_input,
                 ai_response |-> outcome.choices[1]]>> \o conversation_history,
          ret |-> outcome.choices[1]]

\* CitizenAI.generate_response: the log after the call and the returned text
generate_response(user_input, outcome) ==
    IF outcome.exc # None
    THEN \* completions.create raised: except Exception
         [conversation_history |-> conversation_history,
          ret |-> "Error: " \o outcome.exc]
    ELSE IF outcome.choices = <<>>
    THEN \* completion.choices[0] raised IndexError: except Exception
         [conversation_history |-> conversation_history,
          ret |-> "Error: " \o IndexError]
    ELSE LET response_text == outcome.choices[1]
         IN  [conversation_history |->
                  Append(conversation_history,
                         [timestamp |-> now,
                          user_input |-> user_input,
                          ai_response |-> response_text]),
              ret |-> response_text]

\* `not self.api_key`
no_api_key(api_key) == api_key = None \/ api_key = ""

(***************************************************************************)
(* The state after the module is loaded.                                   *)
(***************************************************************************)
NoCall == [op |-> "none"]

Init ==
    /\ HF_API_TOKEN \in EnvTokens
    /\ ai = None
    /\ conversation_history = <<>>
    /\ now = 0
    /\ feedback_input \in FeedbackBox
    /\ last = NoCall

\* a scorer run: an instance is installed and the feedback box holds any text
InitScore ==
    /\ HF_API_TOKEN = "hf_token"
    /\ ai = "CitizenAI"
    /\ conversation_history = <<>>
    /\ now = 0
    /\ feedback_input \in Texts
    /\ last = NoCall

(***************************************************************************)
(* The handlers wired to the interface.                                    *)
(***************************************************************************)
\* a failed construction leaves no instance at all
initialize_ai_clearing ==
    \E client_ok \in BOOLEAN :
        IF no_api_key(HF_API_TOKEN)
        THEN /\ ai' = None
             /\ conversation_history' = <<>>
             /\ last' = [op |-> "initialize_ai",
                         ret |-> Str("Failed to initialize AI: " \o TokenMissing)]
             /\ UNCHANGED <<HF_API_TOKEN, now, feedback_input>>
        ELSE IF ~client_ok
        THEN /\ ai' = None
             /\ conversation_history' = <<>>
             /\ last' = [op |-> "initialize_ai",
                         ret |-> Str("Failed to initialize AI: " \o ClientError)]
             /\ UNCHANGED <<HF_API_TOKEN, now, feedback_input>>
        ELSE /\ ai' = "CitizenAI"
             /\ conversation_history' = <<>>
             /\ last' = [op |-> "initialize_ai",
                         ret |-> Str("Citizen AI initialized successfully!")]
             /\ UNCHANGED <<HF_API_TOKEN, now, feedback_input>>

\* initialize_ai: ai = CitizenAI() under try / except Exception.  CitizenAI()
\* raises ValueError without a token; client_ok is whether the external
\* InferenceClient(...) constructor returns rather than raises.  The global
\* is assigned only when CitizenAI() returns.
initialize_ai ==
    \E client_ok \in BOOLEAN :
        IF no_api_key(HF_API_TOKEN)
        THEN /\ last' = [op |-> "initialize_ai",
                         ret |-> Str("Failed to initialize AI: " \o TokenMissing)]
             /\ UNCHANGED <<HF_API_TOKEN, ai, conversation_history, now, feedback_input>>
        ELSE IF ~client_ok
        THEN /\ last' = [op |-> "initialize_ai",
                         ret |-> Str("Failed to initialize AI: " \o ClientError)]
             /\ UNCHANGED <<HF_API_TOKEN, ai, conversation_history, now, feedback_input>>
        ELSE /\ ai' = "CitizenAI"
             /\ conversation_history' = <<>>
             /\ last' = [op |-> "initialize_ai",
                         ret |-> Str("Citizen AI initialized successfully!")]
             /\ UNCHANGED <<HF_API_TOKEN, now, feedback_input>>

\* `not message`: only the empty message is turned away
empty_message_unstripped(message) == message = <<>>

\* `not message.strip()`
empty_message(message) == strip(message) = <<>>

\* history + [[message, reply]]
with_reply(history, message, reply) ==
    Append(history, [message |-> message, reply |-> reply])

\* chat_with_ai(message, history).  generate_response catches every
\* Exception itself, so the handler's own except branch is never taken.
chat_with_ai(message, history) ==
    \/ /\ ai = None
       /\ last' = [op |-> "chat_with_ai", message |-> message, history |-> history,
                   called |-> FALSE,
                   ret |-> [kind |-> "chatbot",
                            pairs |-> with_reply(history, message, NotInitialized)]]
       /\ UNCHANGED <<HF_API_TOKEN, ai, conversation_history, now, feedback_input>>
    \/ /\ ai # None
       /\ empty_message(message)
       /\ last' = [op |-> "chat_with_ai", message |-> message, history |-> history,
                   called |-> FALSE,
                   ret |-> [kind |-> "chatbot",
                            pairs |-> with_reply(history, message,
                                                 "Please enter a message.")]]
       /\ UNCHANGED <<HF_API_TOKEN, ai, conversation_history, now, feedback_input>>
    \/ /\ ai # None
       /\ ~empty_message(message)
       /\ \E outcome \in ApiOutcomes :
            LET g == generate_response(message, outcome)
            IN  /\ Len(g.conversation_history) <= MaxLog
                /\ conversation_history' = g.conversation_history
                /\ last' = [op |-> "chat_with_ai", message |-> message,
                            history |-> history, called |-> TRUE, api |-> outcome,
                            ret |-> [kind |-> "chatbot",
                                     pairs |-> with_reply(history, message, g.ret)]]
       /\ UNCHANGED <<HF_API_TOKEN, ai, now, feedback_input>>

\* analyze_sentiment_gradio(text), text being the feedback box
analyze_sentiment_gradio ==
    /\ last' = [op |-> "analyze_sentiment_gradio", text |-> feedback_input,
                ret |-> IF ai = None THEN Str(NotInitialized)
                        ELSE analyze_sentiment(feedback_input)]
    /\ UNCHANGED <<HF_API_TOKEN, ai, conversation_history, now, feedback_input>>

\* the shown window is all that is kept of the log
get_history_trimming ==
    /\ last' = [op |-> "get_history",
                ret |-> IF ai = None THEN Str(NotInitialized)
                        ELSE get_conversation_history]
    /\ conversation_history' =
           SubSeq(conversation_history,
                  max(1, Len(conversation_history) - HistoryWindow + 1),
                  Len(conversation_history))
    /\ UNCHANGED <<HF_API_TOKEN, ai, now, feedback_input>>

\* get_history()
get_history ==
    /\ last' = [op |-> "get_history",
                ret |-> IF ai = None THEN Str(NotInitialized)
                        ELSE get_conversation_history]
    /\ UNCHANGED <<HF_API_TOKEN, ai, conversation_history, now, feedback_input>>

\* get_dashboard_stats(): both returned texts interpolate the number of
\* records; the first also the current time
get_dashboard_stats ==
    /\ last' = [op |-> "get_dashboard_stats",
                ret |-> IF ai = None
                        THEN [kind |-> "stats_unavailable"]
                        ELSE [kind |-> "stats",
                              total_conversations |-> Len(conversation_history),
                              current_time |-> now]]
    /\ UNCHANGED <<HF_API_TOKEN, ai, conversation_history, now, feedback_input>>

\* get_service_info(service_type): services_info.get(service_type, default)
get_service_info(service_type) ==
    /\ last' = [op |-> "get_service_info", service_type |-> service_type,
                ret |-> IF service_type \in services_info
                        THEN [kind |-> "service", key |-> service_type]
                        ELSE Str("Service information not available.")]
    /\ UNCHANGED <<HF_API_TOKEN, ai, conversation_history, now, feedback_input>>

\* time passes between two readings of datetime.now()
Tick ==
    /\ now < MaxClock
    /\ now' = now + 1
    /\ UNCHANGED <<HF_API_TOKEN, ai, conversation_history, feedback_input, last>>

Next ==
    \/ initialize_ai
    \/ \E message \in Messages, history \in Histories : chat_with_ai(message, history)
    \/ analyze_sentiment_gradio
    \/ get_history
    \/ get_dashboard_stats
    \/ \E service_type \in ServiceChoices : get_service_info(service_type)
    \/ Tick

Spec == Init /\ [][Next]_vars

\* the scorer applied to the text of the feedback box
NextScore == analyze_sentiment_gradio

SpecScore == InitScore /\ [][NextScore]_vars

(***************************************************************************)
(* Properties.                                                             *)
(***************************************************************************)
IsPrefix(s, t) == Len(s) <= Len(t) /\ SubSeq(t, 1, Len(s)) = s

AllWhitespace(s) == \A i \in 1..Len(s) : s[i] \in Whitespace

Min(a, b) == IF a <= b THEN a ELSE b

InitOk == Str("Citizen AI initialized successfully!")

\* the step is a call of chat_with_ai
ChatStep ==
    \E message \in Messages, history \in Histories : chat_with_ai(message, history)

\* the reply chat_with_ai put in the returned chat history
Reply(call) == call.ret.pairs[Len(call.ret.pairs)].reply

\* the assistant call returned a completion holding a response
Succeeded(api) == api.exc = None /\ api.choices # <<>>

\* the last min(k, N) records of the log, oldest first, numbered 1..min(k, N)
Window(k) ==
    LET N == Len(conversation_history)
        m == Min(k, N)
    IN  [i \in 1..m |->
            [n |-> i,
             timestamp |-> conversation_history[N - m + i].timestamp,
             user_input |-> conversation_history[N - m + i].user_input,
             ai_response |-> conversation_history[N - m + i].ai_response]]

RenderedAs(k) ==
    last.ret = IF conversation_history = <<>>
               THEN Str("No conversation history yet.")
               ELSE [kind |-> "history", blocks |-> Window(k)]

HistoryShown == last.op = "get_history" /\ ai # None

\* C1 as stated: for every positive limit k, the history shown for a log of
\* N records is the no-history message when N = 0 and otherwise the last
\* min(k, N) records, oldest first, numbered 1..min(k, N).
C1_RenderRecentAnyLimit ==
    HistoryShown => \A k \in 1..MaxLog : RenderedAs(k)

\* C1 amended: the history view takes no limit; its window is fixed at 10.
\* It shows the no-history message when N = 0 and otherwise the last
\* min(10, N) records, oldest first, numbered 1..min(10, N).
C1_RenderRecentFixedWindow ==
    HistoryShown => RenderedAs(HistoryWindow)

C1_Witness ==
    /\ HistoryShown
    /\ Len(conversation_history) > HistoryWindow
    /\ conversation_history[1].timestamp < conversation_history[2].timestamp

\* the feedback text of the last call was scored
Scored ==
    /\ last.op = "analyze_sentiment_gradio"
    /\ ai # None
    /\ ~AllWhitespace(last.text)

\* the distinct entries of a lexicon that occur in the lower-cased text
Matched(words, text) ==
    {w \in {words[i] : i \in 1..Len(words)} : str_contains(lower(text), w)}

\* C2: for every non-blank text the label is Positive exactly when
\* positive_count > negative_count, Negative exactly when negative_count >
\* positive_count and Neutral exactly when they are equal; a text matching a
\* positive entry and no negative entry is Positive, and symmetrically.
C2_LabelByCounts ==
    Scored =>
        LET r == last.ret
            p == r.positive_count
            n == r.negative_count
        IN  /\ r.sentiment \in {"Positive", "Negative", "Neutral"}
            /\ (r.sentiment = "Positive") <=> (p > n)
            /\ (r.sentiment = "Negative") <=> (n > p)
            /\ (r.sentiment = "Neutral") <=> (p = n)
            /\ (Matched(positive_words, last.text) # {} /\ Matched(negative_words, last.text) = {})
                   => r.sentiment = "Positive"
            /\ (Matched(negative_words, last.text) # {} /\ Matched(positive_words, last.text) = {})
                   => r.sentiment = "Negative"

C2_Witness ==
    /\ Scored
    /\ last.ret.sentiment = "Neutral"
    /\ last.ret.positive_count >= 1

\* C3 as stated: for every non-blank text the confidence is
\* max(positive_count, negative_count) / (word_count + 1), lies in [0, 1],
\* and is 0 exactly when both counts are 0.
C3_ConfidenceInUnitInterval ==
    Scored =>
        LET r == last.ret
            c == r.confidence
        IN  /\ c.num = max(r.positive_count, r.negative_count)
            /\ c.den = Len(split(last.text)) + 1
            /\ 0 <= c.num /\ c.num <= c.den
            /\ (c.num = 0) <=> (r.positive_count = 0 /\ r.negative_count = 0)

\* the size of each lexicon
LexiconSize == 22

\* C4: each count is the number of distinct entries of its lexicon that
\* occur at least once in the lower-cased text, so it is at most 22, and a
\* repeated entry counts once.
C4_MembershipCount ==
    Scored =>
        LET r == last.ret
        IN  /\ r.positive_count = Cardinality(Matched(positive_words, last.text))
            /\ r.negative_count = Cardinality(Matched(negative_words, last.text))
            /\ r.positive_count <= LexiconSize
            /\ r.negative_count <= LexiconSize
            /\ last.text = RepeatedWord => r.positive_count = 1

C4_Witness ==
    /\ Scored
    /\ occurrences(lower(last.text), positive_words[1]) >= 2
    /\ last.ret.positive_count = 1

\* C5: the scorer returns the empty-input notice for every text that is
\* empty once trimmed, and a sentiment result for every other text.
C5_EmptyInputNotice ==
    (last.op = "analyze_sentiment_gradio" /\ ai # None) =>
        IF AllWhitespace(last.text)
        THEN last.ret = Str("Please enter some text to analyze.")
        ELSE last.ret.kind = "sentiment"

C5_Witness ==
    /\ last.op = "analyze_sentiment_gradio"
    /\ ai # None
    /\ last.text # <<>>
    /\ AllWhitespace(last.text)
    /\ last.ret = Str("Please enter some text to analyze.")

\* C6 as stated: over every sequence of operations the log in an earlier
\* state is a prefix of the log in every later state.
C6_AppendOnlyAlways ==
    [][IsPrefix(conversation_history, conversation_history')]_vars

\* C6 amended: the log of an installed instance only grows at its end; the
\* one step that does not extend the log is a successful initialize_ai,
\* which installs a new instance whose log is empty.
C6_AppendOnlyPerInstance ==
    [][\/ IsPrefix(conversation_history, conversation_history')
       \/ /\ initialize_ai
          /\ last'.ret = InitOk
          /\ conversation_history' = <<>>]_vars

C6_Witness ==
    /\ last.op = "chat_with_ai"
    /\ last.called
    /\ Len(conversation_history) >= 2
    /\ conversation_history[1].timestamp
           < conversation_history[Len(conversation_history)].timestamp

\* C7: a chat call whose assistant call succeeds appends exactly one record,
\* holding the call's message and the returned response, at the end of the
\* log; one whose assistant call fails leaves the log unchanged and returns
\* an error string.
C7_AppendOnSuccessOnly ==
    [][(ChatStep /\ last'.called) =>
          IF Succeeded(last'.api)
          THEN /\ Len(conversation_history') = Len(conversation_history) + 1
               /\ IsPrefix(conversation_history, conversation_history')
               /\ conversation_history'[Len(conversation_history')].user_input
                      = last'.message
               /\ conversation_history'[Len(conversation_history')].ai_response
                      = last'.api.choices[1]
               /\ Reply(last') = last'.api.choices[1]
          ELSE /\ conversation_history' = conversation_history
               /\ Reply(last') = "Error: " \o (IF last'.api.exc # None
                                                THEN last'.api.exc
                                                ELSE IndexError)]_vars

C7_Witness ==
    /\ last.op = "chat_with_ai"
    /\ last.called
    /\ ~Succeeded(last.api)
    /\ Len(conversation_history) >= 1

\* the step is a call of one of the read handlers
ReadStep ==
    /\ last'.op \in {"get_history", "analyze_sentiment_gradio", "get_dashboard_stats"}
    /\ (get_history \/ analyze_sentiment_gradio \/ get_dashboard_stats)

\* C8: the history view, the scorer and the dashboard statistics leave the
\* log and the instance as they were.
C8_ReadsLeaveLog ==
    [][ReadStep =>
          /\ conversation_history' = conversation_history
          /\ ai' = ai]_vars

C8_Witness ==
    /\ last.op = "get_dashboard_stats"
    /\ last.ret.kind = "stats"
    /\ last.ret.total_conversations > HistoryWindow
    /\ Len(conversation_history) = last.ret.total_conversations

\* C9: a failed initialize_ai returns a failure message and leaves the
\* global instance and its log as they were; the instance changes only in
\* a successful initialize_ai.
C9_FailedInitKeepsInstance ==
    [][/\ (initialize_ai /\ last'.ret # InitOk) =>
              /\ ai' = ai
              /\ conversation_history' = conversation_history
              /\ last'.ret.kind = "str"
       /\ (ai' # ai) => (initialize_ai /\ last'.ret = InitOk)]_vars

C9_Witness ==
    /\ last.op = "initialize_ai"
    /\ last.ret # InitOk
    /\ ai # None
    /\ Len(conversation_history) >= 1

\* C10: chat_with_ai returns the input history with one [message, reply] pair
\* added at the end; it calls the assistant, and can change the log, only
\* when an instance is installed and the message is not blank once trimmed.
C10_ChatGuards ==
    [][ChatStep =>
          LET m == last'.message
              h == last'.history
              out == last'.ret.pairs
          IN  /\ Len(out) = Len(h) + 1
              /\ IsPrefix(h, out)
              /\ out[Len(out)].message = m
              /\ out[Len(out)] = [message |-> m, reply |-> Reply(last')]
              /\ (ai = None \/ AllWhitespace(m)) =>
                     /\ ~last'.called
                     /\ conversation_history' = conversation_history
              /\ (last'.called \/ conversation_history' # conversation_history) =>
                     (ai # None /\ ~AllWhitespace(m))]_vars

C10_Witness ==
    /\ last.op = "chat_with_ai"
    /\ ai # None
    /\ last.message # <<>>
    /\ AllWhitespace(last.message)
    /\ ~last.called
    /\ Len(conversation_history) >= 1

====
